---- MODULE Spec2Model ----
(***************************************************************************)
(* Model of crayon's Neighborhood Graph Analysis core (src/src/py/nga.py): *)
(* Graph identity, GraphLibrary.encounter / collect, and the Ensemble      *)
(* pipeline insert -> collect -> prune -> computeDists.                    *)
(*                                                                         *)
(* Python lists are TLA+ sequences; Python indices are kept 0-based as     *)
(* values (idx) and shifted by one when a sequence is read (seq[idx+1]).   *)
(***************************************************************************)
EXTENDS Integers, Sequences, FiniteSets, TLC

(***************************************************************************)
(* Bounds of the model.                                                    *)
(***************************************************************************)
\* number of distinct graphlet degree distributions (hence signatures)
NumGdd == 2
\* a direct encounter call observes 1..MaxCount instances
MaxCount == 2
\* number of library calls in one behaviour of the library specification
MaxCalls == 3

\* number of MPI ranks of the gather specification (rank 0 is the coordinator)
NumRanks == 2
\* number of frames (files) of the gather specification
NumFrames == 3

VARIABLES
    libs,     \* LibIds -> GraphLibrary : the GraphLibrary objects of the library specification
    last,     \* the last call made on a library and how it ended
    calls,    \* number of library calls made so far
    merged,   \* result of merging A and B into empty libraries in both orders
    ens,      \* rank -> Ensemble (library, lookups) of that process
    snaps,    \* frame -> the neighborhoods read for it, once inserted
    stage,    \* where the pipeline is
    err,      \* the exception that aborted the pipeline, or "none"
    warned,   \* frame keys of the duplicate-key warnings printed, in order
    lm,       \* the coordinator's landmarks: lm_idx and lm_sigs, once prune has set them
    dists,    \* the coordinator's distance matrix, a sequence of rows
    valid,    \* valid_cols and valid_rows, once outlier detection has set them
    task_list, \* the (graph, landmark) tasks of the distance stage
    queue,    \* the task queue: next task, what each worker holds, results
    runs,     \* number of computeDists calls made
    snapshot, \* the Snapshot that is built and saved: N, neighbors, adjacency, library, lookup
    file,     \* the file written by Snapshot.save, or no file
    fresh,    \* the Snapshot constructed from the file by Snapshot.load
    R,        \* the matrix handed to rankOrderTransform, a sequence of rows
    coords    \* what rankOrderTransform returned, or the exception it raised

libVars == <<libs, last, calls, merged>>
ensVars == <<ens, snaps, stage, err, warned>>
distVars == <<lm, dists, valid, task_list, queue, runs>>
snapVars == <<snapshot, file, fresh>>
rankVars == <<R, coords>>
vars == <<libs, last, calls, merged, ens, snaps, stage, err, warned,
          lm, dists, valid, task_list, queue, runs, snapshot, file, fresh, R, coords>>

(***************************************************************************)
(* Graph                                                                   *)
(***************************************************************************)
\* A Graph as far as the library sees it: the graphlet degree distribution
\* (self.gdd, which with node and edge count makes the signature) and the
\* normalised graph-wide graphlet degree vector (self.ngdv, which makes the
\* distance).  Both come from the external _crayon.graph capability, so a
\* Graph is any pair of them.
Ngdvs == {0, 1}

Graphs == [gdd : 1..NumGdd, ngdv : Ngdvs]

Abs(x) == IF x < 0 THEN -x ELSE x

\* Graph.__sub__ : norm of the difference of the graph-wide vectors
Sub(G, H) == Abs(G.ngdv - H.ngdv)

\* Graph.__eq__ : A - B == 0
GraphEq(G, H) == Sub(G, H) = 0

GraphNe_tolerant(G, H) == Sub(G, H) > 1

\* Graph.__ne__ : A - B > 0
GraphNe(G, H) == Sub(G, H) > 0

\* Graph.__str__ : the signature is built from the degree distribution only;
\* the graph-wide vector is not part of it.
Str(G) == <<G.gdd>>

Sigs == {Str(G) : G \in Graphs}

(***************************************************************************)
(* GraphLibrary                                                            *)
(***************************************************************************)
\* GraphLibrary.__init__
EmptyLibrary == [sigs |-> <<>>, graphs |-> <<>>, counts |-> <<>>, index |-> <<>>]

\* "sig in self.index"
Known(L, sig) == sig \in DOMAIN L.index

\* GraphLibrary.find : signature lookup only; -1 stands for None
Find(L, G) == IF Known(L, Str(G)) THEN L.index[Str(G)] ELSE -1

EncounterStore_firstCountOne(L, G, count) ==
    LET sig == Str(G) IN
    IF Known(L, sig)
    THEN [L EXCEPT !.counts[L.index[sig] + 1] = @ + count]
    ELSE [sigs   |-> Append(L.sigs, sig),
          graphs |-> Append(L.graphs, G),
          counts |-> Append(L.counts, 1),
          index  |-> (sig :> Len(L.graphs)) @@ L.index]

\* The library after the try/except of encounter (lines 115-123), before the
\* structural check.
EncounterStore(L, G, count) ==
    LET sig == Str(G) IN
    IF Known(L, sig)
    THEN [L EXCEPT !.counts[L.index[sig] + 1] = @ + count]
    ELSE [sigs   |-> Append(L.sigs, sig),
          graphs |-> Append(L.graphs, G),
          counts |-> Append(L.counts, count),
          index  |-> (sig :> Len(L.graphs)) @@ L.index]

\* GraphLibrary.encounter : lib is the library when the call ends, idx the
\* index it computed, raised whether it ended in the RuntimeError of line 128
\* (then nothing is returned).
Encounter(L, G, count) ==
    LET sig == Str(G)
        idx == IF Known(L, sig) THEN L.index[sig] ELSE Len(L.graphs)
        L1  == EncounterStore(L, G, count)
    IN  [lib    |-> L1,
         idx    |-> idx,
         raised |-> GraphNe(L1.graphs[idx + 1], G)]

\* One element of the list handed to collect: a GraphLibrary (lib; isSelf when
\* it is the very object collect is called on) or an object of another type.
LibElem(L, self) == [type |-> "GraphLibrary", lib |-> L, isSelf |-> self]
OtherElem == [type |-> "other", lib |-> EmptyLibrary, isSelf |-> FALSE]

RECURSIVE CollectLoop_defaultCount(_, _, _, _, _)
CollectLoop_defaultCount(L, others, i, k, counts) ==
    IF i > Len(others) THEN [lib |-> L, err |-> "none"]
    ELSE IF others[i].type # "GraphLibrary" THEN [lib |-> L, err |-> "AttributeError"]
    ELSE LET other == IF others[i].isSelf THEN L ELSE others[i].lib IN
         IF k >= Len(other.graphs) THEN CollectLoop_defaultCount(L, others, i + 1, 0, counts)
         ELSE LET r == Encounter(L, other.graphs[k + 1], IF counts THEN 1 ELSE 0)
              IN  IF r.raised THEN [lib |-> r.lib, err |-> "RuntimeError"]
                  ELSE CollectLoop_defaultCount(r.lib, others, i, k + 1, counts)

\* The loops of collect (lines 141-143) from element i, graph index k on.
\* An element without .graphs ends the call in an AttributeError, a degenerate
\* signature in encounter's RuntimeError; what was merged before stays merged.
RECURSIVE CollectLoop(_, _, _, _, _)
CollectLoop(L, others, i, k, counts) ==
    IF i > Len(others) THEN [lib |-> L, err |-> "none"]
    ELSE IF others[i].type # "GraphLibrary" THEN [lib |-> L, err |-> "AttributeError"]
    ELSE LET other == IF others[i].isSelf THEN L ELSE others[i].lib IN
         IF k >= Len(other.graphs) THEN CollectLoop(L, others, i + 1, 0, counts)
         ELSE LET r == Encounter(L, other.graphs[k + 1],
                                 IF counts THEN other.counts[k + 1] ELSE 0)
              IN  IF r.raised THEN [lib |-> r.lib, err |-> "RuntimeError"]
                  ELSE CollectLoop(r.lib, others, i, k + 1, counts)

\* GraphLibrary.collect ; others is the list after line 137 wrapped a non-list
\* argument.  Only others[0] is type-checked (line 138); reading others[0] of
\* an empty list is an IndexError.
Collect(L, others, counts) ==
    IF Len(others) = 0 THEN [lib |-> L, err |-> "IndexError"]
    ELSE IF others[1].type # "GraphLibrary" THEN [lib |-> L, err |-> "TypeError"]
    ELSE CollectLoop(L, others, 1, 0, counts)

\* lines 136-137 : a non-list argument becomes a one-element list
AsList(isList, arg) == IF isList THEN arg ELSE <<arg[1]>>

\* Ensemble.__init__
EmptyEnsemble == [library |-> EmptyLibrary, lookups |-> <<>>]

\* parallel.info : ranks 0..size-1, rank 0 is the master
Ranks == 0..(NumRanks - 1)

\* the ensemble variables before any process has done anything
EnsIdle ==
    /\ ens = [r \in Ranks |-> EmptyEnsemble]
    /\ snaps = <<>>
    /\ stage = "build"
    /\ err = "none"
    /\ warned = <<>>

\* an attribute that is None or was never assigned
Unset(v) == [set |-> FALSE, val |-> v]
Value(v) == [set |-> TRUE, val |-> v]

\* Snapshot.__init__ (lines 158-161): neighbors = adjacency = library = lookup
\* = None; N is an attribute only once a reader or load has assigned it
NewSnapshot == [N |-> Unset(0), neighbors |-> Unset(<<>>), adjacency |-> Unset(<<>>),
                library |-> Unset(EmptyLibrary), lookup |-> Unset(<<>>)]
NoFile == [written |-> FALSE, buff |-> <<>>, keys |-> {}, src |-> NewSnapshot]
NotLoaded == [loaded |-> FALSE, err |-> "none", snap |-> NewSnapshot]
NotTransformed == [done |-> FALSE, err |-> "none", val |-> <<>>]

\* the persistence and colour variables while nothing is saved or transformed
SnapIdle ==
    /\ snapshot = NewSnapshot
    /\ file = NoFile
    /\ fresh = NotLoaded
RankIdle ==
    /\ R = <<>>
    /\ coords = NotTransformed

\* queue workers of the distance stage (the bound of the distance specification)
NumWorkers == 2
Workers == 1..NumWorkers

\* the task queue when no distance stage is running
IdleQueue == [next |-> 1, busy |-> [w \in Workers |-> 0], results |-> <<>>,
              handed |-> <<>>, detect |-> FALSE]

\* lm_idx and lm_sigs do not exist before prune (they are not set in __init__)
NoLandmarks == [set |-> FALSE, idx |-> <<>>, sigs |-> <<>>]

\* valid_cols = valid_rows = None (lines 255-256)
NoValid == [colsSet |-> FALSE, cols |-> <<>>, rowsSet |-> FALSE, rows |-> <<>>]

\* the distance variables before prune and computeDists
DistIdle ==
    /\ lm = NoLandmarks
    /\ dists = <<>>
    /\ valid = NoValid
    /\ task_list = <<>>
    /\ queue = IdleQueue
    /\ runs = 0

(***************************************************************************)
(* The library specification: two GraphLibrary objects, changed by any     *)
(* sequence of encounter calls on either and collect calls on "A".         *)
(***************************************************************************)
LibIds == {"A", "B"}

\* lengths of the lists handed to collect
OthersLens == 0..2

\* how the last call ended: ret is the returned index (-1: nothing returned)
NoCall == [op |-> "none", ret |-> -1, err |-> "none"]

NotMerged == [done |-> FALSE,
              ab |-> [lib |-> EmptyLibrary, err |-> "none"],
              ba |-> [lib |-> EmptyLibrary, err |-> "none"]]

InitLib ==
    /\ libs = [l \in LibIds |-> EmptyLibrary]
    /\ last = NoCall
    /\ calls = 0
    /\ merged = NotMerged
    /\ EnsIdle
    /\ DistIdle
    /\ SnapIdle
    /\ RankIdle

\* libs[l].encounter(G, count)
EncounterCall(l, G, count) ==
    /\ calls < MaxCalls
    /\ LET r == Encounter(libs[l], G, count) IN
       /\ libs' = [libs EXCEPT ![l] = r.lib]
       /\ last' = [op  |-> "encounter",
                   ret |-> IF r.raised THEN -1 ELSE r.idx,
                   err |-> IF r.raised THEN "RuntimeError" ELSE "none"]
    /\ calls' = calls + 1
    /\ merged' = NotMerged
    /\ UNCHANGED <<snapVars, rankVars, ensVars, distVars>>

\* what a name in an argument of collect denotes when the call is made on l
ElemOf(l, ref) == IF ref \in LibIds THEN LibElem(libs[ref], ref = l) ELSE OtherElem


\* the arguments of collect: lists of libraries and other objects
CollectArgs == UNION {[1..k -> LibIds \cup {"other"}] : k \in OthersLens}

\* libs[l].collect(others, counts) ; the argument is a list of libraries and
\* other objects, or (isList false) one such object that is not a list
CollectCall(l, isList, refs, counts) ==
    /\ calls < MaxCalls
    /\ isList \/ Len(refs) = 1
    /\ LET others == AsList(isList, [i \in 1..Len(refs) |-> ElemOf(l, refs[i])])
           r == Collect(libs[l], others, counts) IN
       /\ libs' = [libs EXCEPT ![l] = r.lib]
       /\ last' = [op |-> "collect", ret |-> -1, err |-> r.err]
    /\ calls' = calls + 1
    /\ merged' = NotMerged
    /\ UNCHANGED <<snapVars, rankVars, ensVars, distVars>>

\* GraphLibrary().collect([A, B]) and GraphLibrary().collect([B, A])
MergeOrders ==
    /\ ~merged.done
    /\ merged' = [done |-> TRUE,
                  ab |-> Collect(EmptyLibrary,
                                 <<LibElem(libs["A"], FALSE), LibElem(libs["B"], FALSE)>>, TRUE),
                  ba |-> Collect(EmptyLibrary,
                                 <<LibElem(libs["B"], FALSE), LibElem(libs["A"], FALSE)>>, TRUE)]
    /\ last' = [op |-> "merge", ret |-> -1, err |-> "none"]
    /\ UNCHANGED <<libs, calls>>
    /\ UNCHANGED <<snapVars, rankVars, ensVars, distVars>>

NextLib ==
    \/ \E l \in LibIds, G \in Graphs, count \in 1..MaxCount : EncounterCall(l, G, count)
    \/ \E isList \in BOOLEAN, counts \in BOOLEAN, refs \in CollectArgs :
            CollectCall("A", isList, refs, counts)
    \/ MergeOrders

SpecLib == InitLib /\ [][NextLib]_vars

(***************************************************************************)
(* Claims about GraphLibrary                                               *)
(***************************************************************************)
IsPrefix(s, t) == Len(s) <= Len(t) /\ \A i \in 1..Len(s) : s[i] = t[i]

\* total of the counts stored under a signature (0 when it is not stored)
RECURSIVE SumCounts(_, _, _)
SumCounts(L, sig, i) ==
    IF i > Len(L.sigs) THEN 0
    ELSE (IF L.sigs[i] = sig THEN L.counts[i] ELSE 0) + SumCounts(L, sig, i + 1)
CountOfSig(L, sig) == SumCounts(L, sig, 1)

\* what an encounter call that returned must have done to its library
EncounterEffect(before, after, G, count, ret) ==
    LET sig == Str(G)
        pos == ret + 1
    IN  /\ pos \in 1..Len(after.sigs)
        /\ after.sigs[pos] = sig
        /\ \A i \in 1..(pos - 1) : after.sigs[i] # sig
        /\ IsPrefix(before.sigs, after.sigs)
        /\ Len(after.sigs) = (IF pos <= Len(before.sigs) THEN Len(before.sigs)
                              ELSE Len(before.sigs) + 1)
        /\ Len(after.counts) = Len(after.sigs)
        /\ after.counts[pos] =
              (IF pos <= Len(before.sigs) THEN before.counts[pos] ELSE 0) + count
        /\ \A i \in 1..Len(before.sigs) : i # pos => after.counts[i] = before.counts[i]
        /\ after.index[sig] = ret

\* C1: an encounter call that returns gives back the index at which the
\* signature of G was first inserted, adds exactly count to the count at
\* that index and changes no other signature's index or count; and no call
\* (encounter or collect) ever moves a stored signature to another index.
C1_EncounterIndexAndCount ==
    [][ /\ \A l \in LibIds, G \in Graphs, count \in 1..MaxCount :
             (last'.op = "encounter" /\ last'.err = "none" /\ EncounterCall(l, G, count))
                => /\ EncounterEffect(libs[l], libs'[l], G, count, last'.ret)
                   /\ \A o \in LibIds \ {l} : libs'[o] = libs[o]
        /\ \A l \in LibIds :
             /\ IsPrefix(libs[l].sigs, libs'[l].sigs)
             /\ \A sig \in DOMAIN libs[l].index :
                  Known(libs'[l], sig) /\ libs'[l].index[sig] = libs[l].index[sig]
      ]_vars

\* a third call re-encounters the first of two stored signatures
C1_Witness ==
    /\ last.op = "encounter" /\ last.err = "none" /\ last.ret = 0
    /\ \E l \in LibIds : Len(libs[l].sigs) = 2 /\ libs[l].counts[1] = 3

\* C2: in every reachable library the stored signatures are pairwise
\* distinct and every stored count is at least 1.
C2_SigsUniqueCountsPositive ==
    \A l \in LibIds :
        /\ \A i, j \in 1..Len(libs[l].sigs) : i # j => libs[l].sigs[i] # libs[l].sigs[j]
        /\ \A i \in 1..Len(libs[l].counts) : libs[l].counts[i] >= 1

\* the graphs an argument of collect holds, element by element
GraphsOf(l, refs) ==
    UNION {{libs[refs[i]].graphs[k] : k \in 1..Len(libs[refs[i]].graphs)} :
              i \in {j \in 1..Len(refs) : refs[j] \in LibIds}}

StoredGraphs(L) == {L.graphs[k] : k \in 1..Len(L.graphs)}

Degenerate(G, H) == Str(G) = Str(H) /\ Sub(G, H) # 0

\* C3: an encounter of a graph whose signature is stored with a graph at
\* nonzero distance ends in the RuntimeError and returns no index, and a
\* collect that meets such a pair (among the receiving library and the
\* libraries handed to it) does not end normally.
C3_DegenerateIsFatal ==
    [][ /\ \A l \in LibIds, G \in Graphs, count \in 1..MaxCount :
             ( /\ last'.op = "encounter"
               /\ \E H \in StoredGraphs(libs[l]) : Degenerate(G, H)
               /\ EncounterCall(l, G, count) )
                => (last'.err = "RuntimeError" /\ last'.ret = -1)
        /\ \A isList \in BOOLEAN, counts \in BOOLEAN, refs \in CollectArgs :
             ( /\ last'.op = "collect"
               /\ \A i \in 1..Len(refs) : refs[i] \in LibIds
               /\ \E G \in GraphsOf("A", refs),
                     H \in StoredGraphs(libs["A"]) \cup GraphsOf("A", refs) :
                       Degenerate(G, H)
               /\ CollectCall("A", isList, refs, counts) )
                => last'.err = "RuntimeError"
      ]_vars

\* collect met, in encounter, a stored signature at nonzero distance
C3_Witness ==
    /\ last.op = "collect" /\ last.err = "RuntimeError"
    /\ \E G \in StoredGraphs(libs["A"]), H \in StoredGraphs(libs["B"]) : Degenerate(G, H)

\* C4: collect rejects an argument with a non-GraphLibrary element at any
\* position, and an empty list, with a TypeError and leaves the receiving
\* library as it was.
C4_CollectRejectsBeforeMutation ==
    [][ \A isList \in BOOLEAN, counts \in BOOLEAN, refs \in CollectArgs :
             (CollectCall("A", isList, refs, counts)
                /\ (Len(refs) = 0 \/ \E i \in 1..Len(refs) : refs[i] \notin LibIds))
                => (last'.err = "TypeError" /\ libs' = libs)
      ]_vars

\* C5: when A and B are merged into an empty library, the count of every
\* signature is the sum of its counts in A and B, in either order of the
\* merge, and the merged library holds exactly the signatures of A and B.
C5_MergeCountsCommute ==
    (merged.done /\ merged.ab.err = "none" /\ merged.ba.err = "none") =>
        /\ \A sig \in Sigs :
             /\ CountOfSig(merged.ab.lib, sig)
                  = CountOfSig(libs["A"], sig) + CountOfSig(libs["B"], sig)
             /\ CountOfSig(merged.ba.lib, sig) = CountOfSig(merged.ab.lib, sig)
        /\ DOMAIN merged.ab.lib.index = DOMAIN libs["A"].index \cup DOMAIN libs["B"].index
        /\ DOMAIN merged.ba.lib.index = DOMAIN merged.ab.lib.index

\* A and B share a signature and each holds one the other stores at another index
C5_Witness ==
    /\ merged.done /\ merged.ab.err = "none" /\ merged.ba.err = "none"
    /\ Len(libs["A"].sigs) >= 1 /\ Len(libs["B"].sigs) = 2
    /\ \E sig \in Sigs : Known(libs["A"], sig) /\ Known(libs["B"], sig)
    /\ merged.ab.lib.sigs # merged.ba.lib.sigs

(***************************************************************************)
(* Snapshot library construction and the Ensemble gather                   *)
(***************************************************************************)
\* the loop of GraphLibrary.build (lines 88-90): every neighborhood is
\* encountered once; nn_idx collects the returned indices
RECURSIVE BuildLoop(_, _, _, _)
BuildLoop(L, neigh, i, nn_idx) ==
    IF i > Len(neigh) THEN [lib |-> L, nn_idx |-> nn_idx, raised |-> FALSE]
    ELSE LET r == Encounter(L, neigh[i], 1) IN
         IF r.raised THEN [lib |-> r.lib, nn_idx |-> nn_idx, raised |-> TRUE]
         ELSE BuildLoop(r.lib, neigh, i + 1, Append(nn_idx, r.idx))

\* GraphLibrary.build : the library and the lookup signature -> particle
\* indices (0-based) having that signature
Build(L, neigh) ==
    LET b == BuildLoop(L, neigh, 1, <<>>) IN
    [lib    |-> b.lib,
     raised |-> b.raised,
     lookup |-> IF b.raised THEN <<>>
                ELSE [sig \in DOMAIN b.lib.index |->
                        {j - 1 : j \in {k \in 1..Len(neigh) :
                                          b.nn_idx[k] = b.lib.index[sig]}}]]

\* Snapshot.buildLibrary : a fresh library built from the frame's adjacency
BuildLibrary(neigh) == Build(EmptyLibrary, neigh)

\* parallel.partition : the frames of rank r (round-robin, disjoint, covering)
Frames == 0..(NumFrames - 1)
Partition(r) == {f \in Frames : f % NumRanks = r}

\* the graphs frames are made of: one graph per signature, and one more
\* that shares the first signature at nonzero distance
FrameGraphs == {G \in Graphs : G.ngdv = 0 \/ G.gdd = 1}

\* the neighborhoods of one frame
FrameChoices == [1..2 -> FrameGraphs]

\* ParallelTask.gatherData(self) on the master: the Ensemble of every rank,
\* the master's own included, in rank order
Gathered == [i \in 1..NumRanks |-> ens[i - 1]]

\* keys of other.lookups that are already keys of self.lookups, ascending
RECURSIVE KeysFrom(_, _)
KeysFrom(S, k) ==
    IF k > NumFrames THEN <<>>
    ELSE (IF k \in S THEN <<k>> ELSE <<>>) \o KeysFrom(S, k + 1)

RECURSIVE EnsCollectLoop_noWarning(_, _, _, _)
EnsCollectLoop_noWarning(E, others, i, w) ==
    IF i > Len(others) THEN [ens |-> E, err |-> "none", warned |-> w]
    ELSE LET c == Collect(E.library,
                          AsList(FALSE, <<LibElem(others[i].library, FALSE)>>), TRUE)
         IN  IF c.err # "none"
             THEN [ens |-> [E EXCEPT !.library = c.lib], err |-> c.err, warned |-> w]
             ELSE EnsCollectLoop_noWarning(
                    [library |-> c.lib,
                     lookups |-> [k \in DOMAIN E.lookups \cup DOMAIN others[i].lookups |->
                                    IF k \in DOMAIN others[i].lookups
                                    THEN others[i].lookups[k] ELSE E.lookups[k]]],
                    others, i + 1, w)

\* the loop of Ensemble.collect (lines 298-303) from element i on; w is what
\* was printed so far
RECURSIVE EnsCollectLoop(_, _, _, _)
EnsCollectLoop(E, others, i, w) ==
    IF i > Len(others) THEN [ens |-> E, err |-> "none", warned |-> w]
    ELSE LET c == Collect(E.library,
                          AsList(FALSE, <<LibElem(others[i].library, FALSE)>>), TRUE)
         IN  IF c.err # "none"
             THEN [ens |-> [E EXCEPT !.library = c.lib], err |-> c.err, warned |-> w]
             ELSE EnsCollectLoop(
                    [library |-> c.lib,
                     lookups |-> [k \in DOMAIN E.lookups \cup DOMAIN others[i].lookups |->
                                    IF k \in DOMAIN others[i].lookups
                                    THEN others[i].lookups[k] ELSE E.lookups[k]]],
                    others, i + 1,
                    w \o KeysFrom(DOMAIN E.lookups \cap DOMAIN others[i].lookups, 0))

\* Ensemble.collect on the master, given what gatherData returned
EnsCollectMaster(E, others) ==
    IF Len(others) = 0 THEN [ens |-> E, err |-> "none", warned |-> <<>>]
    ELSE EnsCollectLoop(E, others, 1, <<>>)

InitGather ==
    /\ libs = [l \in LibIds |-> EmptyLibrary]
    /\ last = NoCall
    /\ calls = 0
    /\ merged = NotMerged
    /\ EnsIdle
    /\ DistIdle
    /\ SnapIdle
    /\ RankIdle

\* the next frame rank r has to process
NextFrame(r) == CHOOSE f \in Partition(r) \ DOMAIN snaps :
                    \A g \in Partition(r) \ DOMAIN snaps : f <= g

\* Ensemble.insert(f, snap) on rank r, for the next file of its partition
\* (neighborhoodsFromFile, lines 264-269); neigh is what the file holds
Insert(r, neigh) ==
    /\ stage = "build"
    /\ Partition(r) \ DOMAIN snaps # {}
    /\ LET f == NextFrame(r)
           b == BuildLibrary(neigh)
           c == Collect(ens[r].library, AsList(FALSE, <<LibElem(b.lib, FALSE)>>), TRUE)
       IN  /\ snaps' = (f :> neigh) @@ snaps
           /\ IF b.raised
              THEN /\ err' = "RuntimeError" /\ stage' = "aborted" /\ UNCHANGED ens
              ELSE IF c.err # "none"
              THEN /\ err' = c.err /\ stage' = "aborted"
                   /\ ens' = [ens EXCEPT ![r].library = c.lib]
              ELSE /\ ens' = [ens EXCEPT ![r] = [library |-> c.lib,
                                                 lookups |-> (f :> b.lookup) @@ @.lookups]]
                   /\ UNCHANGED <<err, stage>>
    /\ UNCHANGED <<snapVars, rankVars, warned, libVars, distVars>>

\* Ensemble.collect, called by every rank when its files are done
EnsCollect ==
    /\ stage = "build"
    /\ DOMAIN snaps = Frames
    /\ LET r == EnsCollectMaster(ens[0], Gathered) IN
       /\ ens' = [ens EXCEPT ![0] = r.ens]
       /\ err' = r.err
       /\ warned' = r.warned
       /\ stage' = IF r.err = "none" THEN "collected" ELSE "aborted"
    /\ UNCHANGED <<snapVars, rankVars, snaps, libVars, distVars>>

NextGather ==
    \/ \E r \in Ranks, neigh \in FrameChoices : Insert(r, neigh)
    \/ EnsCollect

SpecGather == InitGather /\ [][NextGather]_vars

(***************************************************************************)
(* Claims about the gather                                                 *)
(***************************************************************************)
\* number of neighborhoods of a frame with the signature sig
RECURSIVE Occurrences(_, _, _)
Occurrences(neigh, sig, i) ==
    IF i > Len(neigh) THEN 0
    ELSE (IF Str(neigh[i]) = sig THEN 1 ELSE 0) + Occurrences(neigh, sig, i + 1)

\* observations of sig over the frames 0..f-1
RECURSIVE Observed(_, _)
Observed(sig, f) ==
    IF f = 0 THEN 0
    ELSE Occurrences(snaps[f - 1], sig, 1) + Observed(sig, f - 1)

\* C6: after every rank inserted its frames and collect has run, the
\* coordinator's library holds exactly the signatures seen in the frames,
\* each with the number of its observations over all frames.
C6_CollectedCountsAreSums ==
    (stage = "collected") =>
        \A sig \in Sigs :
            /\ CountOfSig(ens[0].library, sig) = Observed(sig, NumFrames)
            /\ Known(ens[0].library, sig) <=> Observed(sig, NumFrames) > 0

\* how often key k was flagged
RECURSIVE Flags(_, _, _)
Flags(w, k, i) ==
    IF i > Len(w) THEN 0 ELSE (IF w[i] = k THEN 1 ELSE 0) + Flags(w, k, i + 1)

\* C10: in Ensemble.collect every frame key that is already a key of the
\* coordinator's lookups when a gathered Ensemble brings it again is flagged
\* by a warning, once for each time it is brought again; no stored lookup is
\* replaced without its key being flagged.
C10_DuplicateKeyFlagged ==
    [][ (stage = "build" /\ stage' = "collected") =>
          \A k \in Frames :
            LET brought == Cardinality({i \in 1..Len(Gathered) :
                                          k \in DOMAIN Gathered[i].lookups})
                again   == IF k \in DOMAIN ens[0].lookups THEN brought
                           ELSE IF brought = 0 THEN 0 ELSE brought - 1
            IN  /\ Flags(warned', k, 1) = again
                /\ (k \in DOMAIN ens[0].lookups /\ brought > 0) => Flags(warned', k, 1) >= 1
      ]_vars

\* the coordinator held lookups of two frames when collect brought them again
C10_Witness ==
    /\ stage = "collected"
    /\ Len(warned) = 2
    /\ \E k \in DOMAIN ens[0].lookups : Flags(warned, k, 1) = 0

(***************************************************************************)
(* prune, computeDists and outlier detection on the coordinator            *)
(***************************************************************************)
\* np.Inf, the value of a cell that was never computed (line 335)
Inf == 1000

\* a result the queue has not received yet
Pending == -1

\* number of computeDists calls in one behaviour
MaxRuns == 2

\* the thresholds handed to prune: integers, the float 2.5 (num is twice the
\* value), the string "2", a string that is no number, and None
PruneArgs == {[kind |-> "int", num |-> n] : n \in 1..3}
             \cup {[kind |-> "float", num |-> 5], [kind |-> "str", num |-> 2],
                   [kind |-> "text", num |-> 0], [kind |-> "none", num |-> 0]}

\* int(min_freq) of line 309: a float is truncated, a string of digits is
\* parsed, anything else raises
IntCast(arg) ==
    CASE arg.kind = "int"   -> [ok |-> TRUE, val |-> arg.num]
      [] arg.kind = "float" -> [ok |-> TRUE, val |-> arg.num \div 2]
      [] arg.kind = "str"   -> [ok |-> TRUE, val |-> arg.num]
      [] OTHER              -> [ok |-> FALSE, val |-> 0]

ArgwhereAtLeast_strict(counts, min_freq) ==
    SelectSeq([i \in 1..Len(counts) |-> i - 1], LAMBDA i : counts[i + 1] > min_freq)

\* np.argwhere(self.library.counts >= min_freq).flatten() : 0-based, ascending
ArgwhereAtLeast(counts, min_freq) ==
    SelectSeq([i \in 1..Len(counts) |-> i - 1], LAMBDA i : counts[i + 1] >= min_freq)

\* the landmarks prune sets (lines 313-315)
PruneLandmarks(L, min_freq) ==
    LET idx == ArgwhereAtLeast(L.counts, min_freq) IN
    [set |-> TRUE, idx |-> idx, sigs |-> [k \in 1..Len(idx) |-> L.sigs[idx[k] + 1]]]

\* the task list of computeDists (lines 336-338), m = len(self.lm_sigs)
TaskList(n, m, idx) ==
    [k \in 1..(n * m) |-> <<(k - 1) \div m, idx[((k - 1) % m) + 1]>>]

\* eval_func (line 341)
EvalFunc(task, graphs) == Sub(graphs[task[1] + 1], graphs[task[2] + 1])

\* np.argwhere(self.lm_idx == j)[0], as a column of the matrix (1-based)
FirstPos(idx, j) == CHOOSE k \in 1..Len(idx) :
                        idx[k] = j /\ \A h \in 1..(k - 1) : idx[h] # j

RECURSIVE AssembleLoop_byTaskColumn(_, _, _, _, _)
AssembleLoop_byTaskColumn(D, tasks, results, idx, k) ==
    IF k > Len(results) THEN D
    ELSE AssembleLoop_byTaskColumn(
            IF tasks[k][2] + 1 <= Len(idx)
            THEN [D EXCEPT ![tasks[k][1] + 1][tasks[k][2] + 1] = results[k]] ELSE D,
            tasks, results, idx, k + 1)

\* lines 347-351 : result k goes to the cell of task k
RECURSIVE AssembleLoop(_, _, _, _, _)
AssembleLoop(D, tasks, results, idx, k) ==
    IF k > Len(results) THEN D
    ELSE AssembleLoop([D EXCEPT ![tasks[k][1] + 1][FirstPos(idx, tasks[k][2])] = results[k]],
                      tasks, results, idx, k + 1)

RECURSIVE SumSeq(_, _)
SumSeq(q, i) == IF i > Len(q) THEN 0 ELSE q[i] + SumSeq(q, i + 1)

\* np.sum(self.dists, axis=0) and np.sum(self.dists, axis=1)
ColSums(D, m) == [c \in 1..m |-> SumSeq([i \in 1..Len(D) |-> D[i][c]], 1)]
RowSums(D) == [i \in 1..Len(D) |-> SumSeq(D[i], 1)]

\* ascending sequence of the elements of a set of numbers
RECURSIVE SortedSeq(_)
SortedSeq(S) ==
    IF S = {} THEN <<>>
    ELSE LET x == CHOOSE y \in S : \A z \in S : y <= z IN <<x>> \o SortedSeq(S \ {x})

\* twice np.median of the values d[i], i in the set P of positions
RECURSIVE SortedValues(_, _)
SortedValues(d, P) ==
    IF P = {} THEN <<>>
    ELSE LET i == CHOOSE y \in P : \A z \in P : d[y] <= d[z]
         IN  <<d[i]>> \o SortedValues(d, P \ {i})
Median2(d, P) ==
    LET q == SortedValues(d, P)
        n == Len(q)
    IN  IF n % 2 = 1 THEN 2 * q[(n + 1) \div 2] ELSE q[n \div 2] + q[(n \div 2) + 1]

\* scipy.cluster.hierarchy.linkage(X, 'centroid') on one-dimensional data and
\* fcluster(Z, t, criterion='distance').  A cluster is kept with the sum and
\* number of its values (its centroid is sum/size); ok says that no merge
\* below it was higher than t, so that it is cut off as one flat cluster.
Leaf(d, i) == [members |-> {i}, sum |-> d[i], size |-> 1, ok |-> TRUE, slot |-> i]
GapNum(A, B) == Abs(A.sum * B.size - B.sum * A.size)
GapDen(A, B) == A.size * B.size
Closer(p, q) == GapNum(p[1], p[2]) * GapDen(q[1], q[2]) < GapNum(q[1], q[2]) * GapDen(p[1], p[2])
Before(p, q) == p[1].slot < q[1].slot \/ (p[1].slot = q[1].slot /\ p[2].slot <= q[2].slot)
WithinCut(A, B, t2) == 2 * GapNum(A, B) <= t2 * GapDen(A, B)

RECURSIVE Agglomerate(_, _, _)
Agglomerate(C, flat, t2) ==
    IF Cardinality(C) = 1
    THEN LET root == CHOOSE X \in C : TRUE IN IF root.ok THEN {root.members} ELSE flat
    ELSE LET pairs == {p \in C \X C : p[1].slot < p[2].slot}
             best  == CHOOSE p \in pairs :
                        \A q \in pairs : ~Closer(q, p) /\ (Closer(p, q) \/ Before(p, q))
             A     == best[1]
             B     == best[2]
             okM   == A.ok /\ B.ok /\ WithinCut(A, B, t2)
             M     == [members |-> A.members \cup B.members, sum |-> A.sum + B.sum,
                       size |-> A.size + B.size, ok |-> okM, slot |-> B.slot]
         IN  Agglomerate((C \ {A, B}) \cup {M},
                         IF okM THEN flat ELSE flat \cup {X.members : X \in {Y \in {A, B} : Y.ok}},
                         t2)

\* the flat clusters of the statistic d, cut at the median of d
FlatClusters(d) ==
    Agglomerate({Leaf(d, i) : i \in 1..Len(d)}, {}, Median2(d, 1..Len(d)))

\* one side of the outlier detection (lines 356-363 and 367-373): the
\* positions (0-based, ascending) of the cluster with the lowest median.
\* linkage raises a ValueError for fewer than two observations and for
\* values that are not finite; int() of line 361 raises a TypeError when more
\* than one cluster has the lowest median.
Outliers(d) ==
    IF Len(d) < 2 \/ \E i \in 1..Len(d) : d[i] >= Inf
    THEN [err |-> "ValueError", good |-> <<>>]
    ELSE LET cl     == FlatClusters(d)
             lowest == {c \in cl : \A e \in cl : Median2(d, c) <= Median2(d, e)}
         IN  IF Cardinality(lowest) # 1 THEN [err |-> "TypeError", good |-> <<>>]
             ELSE [err |-> "none",
                   good |-> SortedSeq({i - 1 : i \in CHOOSE c \in lowest : TRUE})]

\* a frame in which graph i (signature i, vector v[i]) is seen once and the
\* graphs of the set K are seen a second time
FrameOf(v, K) ==
    [i \in 1..Len(v) |-> [gdd |-> i, ngdv |-> v[i]]]
      \o [j \in 1..Cardinality(K) |->
            [gdd |-> SortedSeq(K)[j], ngdv |-> v[SortedSeq(K)[j]]]]

\* the vectors of the graphs of a frame (the first one is 0: only the
\* differences matter)
FrameVectors(n) == {v \in [1..n -> Ngdvs] : v[1] = 0}

\* four graphs of which one differs from the three others
OddOneOut == {v \in FrameVectors(4) :
                 \E o \in 1..4 : \A i, j \in (1..4) \ {o} : v[i] = v[j] /\ v[i] # v[o]}

\* the frames the coordinator's library is built from: every frame of up to
\* three graphs, and frames of four graphs, one of them different from the
\* others, of which all but the first or all but the last are seen twice
DistFrames ==
    UNION {{FrameOf(v, K) : K \in SUBSET (1..Len(v))} :
              v \in UNION {FrameVectors(n) : n \in 1..3}}
    \cup {FrameOf(v, (1..4) \ {i}) : v \in OddOneOut, i \in {1, 4}}

\* the coordinator after Ensemble.insert(0, snap) of one frame
InitDist ==
    /\ libs = [l \in LibIds |-> EmptyLibrary]
    /\ last = NoCall
    /\ calls = 0
    /\ merged = NotMerged
    /\ \E obs \in DistFrames :
         /\ ens = [r \in Ranks |->
                     IF r = 0 THEN [library |-> BuildLibrary(obs).lib,
                                    lookups |-> (0 :> BuildLibrary(obs).lookup)]
                     ELSE EmptyEnsemble]
         /\ snaps = (0 :> obs)
    /\ stage = "ready"
    /\ err = "none"
    /\ warned = <<>>
    /\ DistIdle
    /\ SnapIdle
    /\ RankIdle

\* Ensemble.prune(min_freq) on the coordinator
Prune(arg) ==
    /\ stage = "ready"
    /\ LET c == IntCast(arg) IN
       IF c.ok
       THEN /\ lm' = PruneLandmarks(ens[0].library, c.val)
            /\ last' = [op |-> "prune", ret |-> -1, err |-> "none"]
       ELSE /\ lm' = lm
            /\ last' = [op |-> "prune", ret |-> -1, err |-> "RuntimeError"]
    /\ UNCHANGED <<snapVars, rankVars, libs, calls, merged, ensVars, dists, valid, task_list, queue, runs>>

\* Ensemble.computeDists(detect_outliers) up to the call of computeQueue
\* (lines 331-342).  lm_idx[j] with j = len(lm_idx) is an IndexError; without a
\* prune before, lm_sigs does not exist (AttributeError).
ComputeDistsStart(detect) ==
    /\ stage = "ready"
    /\ runs < MaxRuns
    /\ runs' = runs + 1
    /\ LET n == Len(ens[0].library.sigs)
           m == Len(lm.sigs)
       IN  IF ~lm.set
           THEN /\ stage' = "aborted" /\ err' = "AttributeError"
                /\ UNCHANGED <<dists, task_list, queue>>
           ELSE /\ dists' = [i \in 1..n |-> [c \in 1..m |-> Inf]]
                /\ IF n > 0 /\ m > Len(lm.idx)
                   THEN /\ stage' = "aborted" /\ err' = "IndexError"
                        /\ task_list' = <<>>
                        /\ queue' = IdleQueue
                   ELSE /\ stage' = "queue" /\ err' = err
                        /\ task_list' = TaskList(n, m, lm.idx)
                        /\ queue' = [next |-> 1, busy |-> [w \in Workers |-> 0],
                                     results |-> [k \in 1..(n * m) |-> Pending],
                                     handed |-> [k \in 1..(n * m) |-> 0],
                                     detect |-> detect]
    /\ last' = [op |-> "computeDists", ret |-> -1, err |-> "none"]
    /\ UNCHANGED <<snapVars, rankVars, libs, calls, merged, ens, snaps, warned, lm, valid>>

\* computeQueue: an idle worker pulls the next task that was not handed out
Assign(w) ==
    /\ stage = "queue"
    /\ queue.busy[w] = 0
    /\ queue.next <= Len(task_list)
    /\ queue' = [queue EXCEPT !.busy[w] = queue.next, !.next = @ + 1,
                              !.handed[queue.next] = @ + 1]
    /\ UNCHANGED <<snapVars, rankVars, libVars, ensVars, lm, dists, valid, task_list, runs>>

\* computeQueue: a worker evaluates its task and returns (task, value)
Finish(w) ==
    /\ stage = "queue"
    /\ queue.busy[w] # 0
    /\ queue' = [queue EXCEPT !.busy[w] = 0,
                              !.results[queue.busy[w]] =
                                  EvalFunc(task_list[queue.busy[w]], ens[0].library.graphs)]
    /\ UNCHANGED <<snapVars, rankVars, libVars, ensVars, lm, dists, valid, task_list, runs>>

\* a worker fails on its task: the whole computation aborts and no result
\* reaches the coordinator
Fail(w) ==
    /\ stage = "queue"
    /\ queue.busy[w] # 0
    /\ stage' = "aborted"
    /\ err' = "WorkerError"
    /\ queue' = IdleQueue
    /\ UNCHANGED <<snapVars, rankVars, libVars, ens, snaps, warned, lm, dists, valid, task_list, runs>>

\* computeDists on the coordinator once computeQueue has returned the
\* results (lines 345-373)
Assemble ==
    /\ stage = "queue"
    /\ queue.next > Len(task_list)
    /\ \A w \in Workers : queue.busy[w] = 0
    /\ LET D  == AssembleLoop(dists, task_list, queue.results, lm.idx, 1)
           oc == Outliers(ColSums(D, Len(lm.sigs)))
           lm1 == [lm EXCEPT !.idx = [k \in 1..Len(oc.good) |-> lm.idx[oc.good[k] + 1]]]
           or == Outliers(RowSums(D))
       IN  /\ dists' = D
           /\ IF ~queue.detect
              THEN /\ stage' = "ready" /\ UNCHANGED <<err, lm, valid>>
              ELSE IF oc.err # "none"
              THEN /\ stage' = "aborted" /\ err' = oc.err /\ UNCHANGED <<lm, valid>>
              ELSE /\ lm' = lm1
                   /\ IF or.err # "none"
                      THEN /\ stage' = "aborted" /\ err' = or.err
                           /\ valid' = [valid EXCEPT !.colsSet = TRUE, !.cols = oc.good]
                      ELSE /\ stage' = "ready" /\ err' = err
                           /\ valid' = [colsSet |-> TRUE, cols |-> oc.good,
                                        rowsSet |-> TRUE, rows |-> or.good]
    /\ UNCHANGED <<snapVars, rankVars, libVars, ens, snaps, warned, task_list, queue, runs>>

NextDist ==
    \/ \E arg \in PruneArgs : Prune(arg)
    \/ \E detect \in BOOLEAN : ComputeDistsStart(detect)
    \/ \E w \in Workers : Assign(w)
    \/ \E w \in Workers : Finish(w)
    \/ \E w \in Workers : Fail(w)
    \/ Assemble

SpecDist == InitDist /\ [][NextDist]_vars

(***************************************************************************)
(* Claims about prune and the distance stage                               *)
(***************************************************************************)
\* the landmarks are exactly the indices with count >= threshold, ascending,
\* with their signatures
LandmarksAre(L, landmarks, threshold) ==
    /\ landmarks.set
    /\ Len(landmarks.sigs) = Len(landmarks.idx)
    /\ \A k \in 1..Len(landmarks.idx) :
         /\ landmarks.idx[k] \in 0..(Len(L.counts) - 1)
         /\ L.counts[landmarks.idx[k] + 1] >= threshold
         /\ landmarks.sigs[k] = L.sigs[landmarks.idx[k] + 1]
         /\ k > 1 => landmarks.idx[k - 1] < landmarks.idx[k]
    /\ \A i \in 1..Len(L.counts) :
         L.counts[i] >= threshold => \E k \in 1..Len(landmarks.idx) : landmarks.idx[k] = i - 1

\* C7 as claimed: an integer threshold selects the landmarks, and every
\* threshold that is not an integer is rejected with the landmarks unchanged.
C7_PruneIntegerOnly ==
    [][ \A arg \in PruneArgs :
          Prune(arg) =>
            IF arg.kind = "int"
            THEN last'.err = "none" /\ LandmarksAre(ens[0].library, lm', arg.num)
            ELSE last'.err = "RuntimeError" /\ lm' = lm
      ]_vars

\* C7 as amended: a threshold that int() can cast (an integer, a float, which
\* is truncated, or a string of digits) selects as landmarks exactly the
\* indices with count >= int(threshold), ascending, with their signatures;
\* a threshold that int() cannot cast is rejected with the landmarks unchanged.
C7_PruneCastable ==
    [][ \A arg \in PruneArgs :
          Prune(arg) =>
            CASE arg.kind \in {"int", "str"} ->
                    last'.err = "none" /\ LandmarksAre(ens[0].library, lm', arg.num)
              [] arg.kind = "float" ->
                    /\ last'.err = "none"
                    /\ \E t \in 0..arg.num :
                         /\ 2 * t <= arg.num /\ arg.num < 2 * (t + 1)
                         /\ LandmarksAre(ens[0].library, lm', t)
              [] OTHER -> last'.err = "RuntimeError" /\ lm' = lm
      ]_vars

\* prune selected some but not all graphs as landmarks
C7_Witness ==
    /\ last.op = "prune" /\ last.err = "none" /\ lm.set
    /\ Len(lm.idx) > 0 /\ Len(lm.idx) < Len(ens[0].library.sigs)
    /\ lm.idx[1] > 0

\* the cells of the distance matrix
Cells == {c \in (1..Len(dists)) \X (1..Len(lm.sigs)) : c[2] <= Len(dists[c[1]])}

\* C8 as claimed: during and after computeDists every cell (i, k) holds +Inf
\* or the distance between graph i and landmark lm_idx[k].
C8_CellIsCurrentLandmark ==
    (last.op = "computeDists" /\ lm.set) =>
        \A c \in Cells :
            \/ dists[c[1]][c[2]] = Inf
            \/ /\ c[2] <= Len(lm.idx)
               /\ dists[c[1]][c[2]] = Sub(ens[0].library.graphs[c[1]],
                                           ens[0].library.graphs[lm.idx[c[2]] + 1])

\* C8 as amended: during and after computeDists every cell (i, k) holds +Inf
\* or the result returned for task (i, k) of the task list, which is the
\* distance between graph i and the landmark that was lm_idx[k] when the
\* task list was built; while the queue runs, and when it is aborted, every
\* cell is +Inf.
C8_CellIsTaskResult ==
    (last.op = "computeDists" /\ lm.set) =>
        \A c \in Cells :
            \/ dists[c[1]][c[2]] = Inf
            \/ LET t == (c[1] - 1) * Len(lm.sigs) + c[2] IN
               /\ stage # "queue" /\ err # "WorkerError"
               /\ t <= Len(task_list)
               /\ task_list[t][1] = c[1] - 1
               /\ dists[c[1]][c[2]] = queue.results[t]
               /\ dists[c[1]][c[2]] = Sub(ens[0].library.graphs[c[1]],
                                           ens[0].library.graphs[task_list[t][2] + 1])

\* the matrix is filled and outlier rejection has dropped a landmark, so that
\* a filled column is no longer the column of landmark lm_idx[k]
C8_Witness ==
    /\ last.op = "computeDists" /\ stage = "ready" /\ lm.set
    /\ Len(lm.idx) < Len(lm.sigs)
    /\ \E c \in Cells :
         /\ dists[c[1]][c[2]] # Inf /\ dists[c[1]][c[2]] > 0
         /\ c[2] <= Len(lm.idx)
         /\ task_list[(c[1] - 1) * Len(lm.sigs) + c[2]][2] # lm.idx[c[2]]

\* C9: when the coordinator enters the distance stage, the task set is the
\* full product of the graph indices and the current landmark indices, and
\* while the queue runs no task is handed to more than one worker.
C9_TasksAreFullProduct ==
    [][ /\ \A detect \in BOOLEAN :
             (ComputeDistsStart(detect) /\ lm.set) =>
                /\ stage' = "queue"
                /\ {task_list'[k] : k \in 1..Len(task_list')}
                     = (0..(Len(ens[0].library.sigs) - 1))
                         \X {lm.idx[k] : k \in 1..Len(lm.idx)}
                /\ Len(task_list') = Len(ens[0].library.sigs) * Len(lm.idx)
        /\ \A k \in 1..Len(queue'.handed) : queue'.handed[k] <= 1
      ]_vars

\* C14: after prune and any sequence of computeDists calls, lm_idx and lm_sigs
\* describe the same landmarks (same length, lm_sigs[k] is the signature of
\* graph lm_idx[k]), and computeDists never indexes past the end of lm_idx.
C14_LandmarkListsAgree ==
    lm.set =>
        /\ Len(lm.sigs) = Len(lm.idx)
        /\ \A k \in 1..Len(lm.sigs) :
             k <= Len(lm.idx) => lm.sigs[k] = ens[0].library.sigs[lm.idx[k] + 1]
        /\ err # "IndexError"

(***************************************************************************)
(* Claim about the integrity error of encounter                            *)
(***************************************************************************)
\* C15: an encounter that ends in the integrity error leaves the library
\* exactly as it was before the call (sigs, graphs, index map and counts).
C15_IntegrityErrorLeavesLibrary ==
    [][ \A l \in LibIds, G \in Graphs, count \in 1..MaxCount :
          (EncounterCall(l, G, count) /\ Encounter(libs[l], G, count).raised)
              => libs'[l] = libs[l]
      ]_vars

(***************************************************************************)
(* Snapshot persistence: buildNeighborhoods, buildAdjacency, buildLibrary, *)
(* save and load                                                           *)
(***************************************************************************)
\* particles of a snapshot (the bound of the persistence specification)
MaxParticles == 2

\* what nl.getNeighbors can return for n particles: every particle has no
\* neighbor or the next particle as its neighbor (0-based indices)
NeighborChoices(n) ==
    {[i \in 1..n |-> IF i \in S THEN <<i % n>> ELSE <<>>] : S \in SUBSET (1..n)}

\* what nl.getAdjacency can return for n particles: one neighborhood graph
\* per particle
AdjacencyChoices(n) == [1..n -> FrameGraphs]

\* the Snapshot once the reader has set N (lines 175-176)
InitSnap ==
    /\ libs = [l \in LibIds |-> EmptyLibrary]
    /\ last = NoCall
    /\ calls = 0
    /\ merged = NotMerged
    /\ EnsIdle
    /\ DistIdle
    /\ RankIdle
    /\ \E n \in 1..MaxParticles : snapshot = [NewSnapshot EXCEPT !.N = Value(n)]
    /\ file = NoFile
    /\ fresh = NotLoaded

\* Snapshot.buildNeighborhoods (lines 199-200)
BuildNeighborhoods(nb) ==
    /\ ~snapshot.neighbors.set
    /\ snapshot' = [snapshot EXCEPT !.neighbors = Value(nb)]
    /\ UNCHANGED <<file, fresh, rankVars, libVars, ensVars, distVars>>

\* Snapshot.buildAdjacency (lines 201-202)
BuildAdjacency(adj) ==
    /\ ~snapshot.adjacency.set
    /\ snapshot' = [snapshot EXCEPT !.adjacency = Value(adj)]
    /\ UNCHANGED <<file, fresh, rankVars, libVars, ensVars, distVars>>

\* Snapshot.buildLibrary (lines 203-209): builds the neighbors and the
\* adjacency that are missing, then a fresh library; when build raises the
\* integrity error the library is assigned already and the lookup is not
SnapshotBuildLibrary(S, nb, adj) ==
    LET S1 == IF S.adjacency.set THEN S
              ELSE [S EXCEPT !.neighbors = IF S.neighbors.set THEN @ ELSE Value(nb),
                             !.adjacency = Value(adj)]
        b  == BuildLibrary(S1.adjacency.val)
    IN  IF b.raised THEN [S1 EXCEPT !.library = Value(b.lib)]
        ELSE [S1 EXCEPT !.library = Value(b.lib), !.lookup = Value(b.lookup)]

BuildLibraryCall(nb, adj) ==
    /\ ~snapshot.library.set
    /\ snapshot' = SnapshotBuildLibrary(snapshot, nb, adj)
    /\ UNCHANGED <<file, fresh, rankVars, libVars, ensVars, distVars>>

\* the dictionary buff of Snapshot.save (lines 223-230) as pickle writes it:
\* its items in the order of insertion; an attribute that is None is written
\* as None
Buff(S, neighbors, adjacency, library) ==
    (IF neighbors THEN <<[key |-> "neighbors", obj |-> S.neighbors]>> ELSE <<>>)
    \o (IF adjacency THEN <<[key |-> "adjacency", obj |-> S.adjacency]>> ELSE <<>>)
    \o (IF library THEN <<[key |-> "library", obj |-> S.library],
                          [key |-> "lookup", obj |-> S.lookup]>> ELSE <<>>)

\* Snapshot.save(filename, neighbors, adjacency, library); keys and src
\* remember what was chosen and the Snapshot that was saved
Save(neighbors, adjacency, library) ==
    /\ file' = [written |-> TRUE,
                buff    |-> Buff(snapshot, neighbors, adjacency, library),
                keys    |-> {k \in {"neighbors", "adjacency", "library"} :
                               \/ k = "neighbors" /\ neighbors
                               \/ k = "adjacency" /\ adjacency
                               \/ k = "library" /\ library},
                src     |-> snapshot]
    /\ fresh' = NotLoaded
    /\ UNCHANGED <<snapshot, rankVars, libVars, ensVars, distVars>>

\* 'key in buff' and buff[key] of the unpickled dictionary
InBuff(buff, k) == \E i \in 1..Len(buff) : buff[i].key = k
BuffAt(buff, k) == buff[CHOOSE i \in 1..Len(buff) : buff[i].key = k].obj

\* lines 236-238 and 239-241: the attribute is assigned, then N = len(it),
\* which is a TypeError when it is None
LoadSized(r, buff, k) ==
    IF r.err # "none" \/ ~InBuff(buff, k) THEN r
    ELSE LET obj == BuffAt(buff, k)
             S1  == IF k = "neighbors" THEN [r.snap EXCEPT !.neighbors = obj]
                    ELSE [r.snap EXCEPT !.adjacency = obj]
         IN  IF obj.set THEN [r EXCEPT !.snap = [S1 EXCEPT !.N = Value(Len(obj.val))]]
             ELSE [r EXCEPT !.snap = S1, !.err = "TypeError"]

\* lines 242-244: library and lookup are assigned, N is not
LoadLibrary(r, buff) ==
    IF r.err # "none" \/ ~InBuff(buff, "library") THEN r
    ELSE [r EXCEPT !.snap = [@ EXCEPT !.library = BuffAt(buff, "library"),
                                      !.lookup = BuffAt(buff, "lookup")]]

\* Snapshot.load on a Snapshot that __init__ has just initialized
SnapshotLoad(buff) ==
    LoadLibrary(
        LoadSized(
            LoadSized([loaded |-> TRUE, err |-> "none", snap |-> NewSnapshot],
                      buff, "neighbors"),
            buff, "adjacency"),
        buff)

\* Snapshot(filename): __init__ and load (lines 164-168)
Load ==
    /\ file.written
    /\ ~fresh.loaded
    /\ fresh' = SnapshotLoad(file.buff)
    /\ UNCHANGED <<snapshot, file, rankVars, libVars, ensVars, distVars>>

NextSnap ==
    \/ \E nb \in NeighborChoices(snapshot.N.val) : BuildNeighborhoods(nb)
    \/ \E adj \in AdjacencyChoices(snapshot.N.val) : BuildAdjacency(adj)
    \/ \E nb \in NeighborChoices(snapshot.N.val), adj \in AdjacencyChoices(snapshot.N.val) :
            BuildLibraryCall(nb, adj)
    \/ \E neighbors, adjacency, library \in BOOLEAN : Save(neighbors, adjacency, library)
    \/ Load

SpecSnap == InitSnap /\ [][NextSnap]_vars

\* the attribute of a Snapshot that a key of save names
Attr(S, k) ==
    CASE k = "neighbors" -> <<S.neighbors>>
      [] k = "adjacency" -> <<S.adjacency>>
      [] OTHER           -> <<S.library, S.lookup>>

\* C11: for every subset of {neighbors, adjacency, (library, lookup)} chosen
\* at save, of attributes that have been built, load into a fresh Snapshot
\* succeeds, restores exactly that subset with the saved values, leaves the
\* other attributes unset, and for a non-empty subset sets N to the particle
\* count of the saved Snapshot.
C11_LoadRestoresSavedSubset ==
    ( /\ fresh.loaded
      /\ \A k \in file.keys : \A i \in 1..Len(Attr(file.src, k)) : Attr(file.src, k)[i].set )
    =>
    ( /\ fresh.err = "none"
      /\ \A k \in {"neighbors", "adjacency", "library"} :
           Attr(fresh.snap, k) = IF k \in file.keys THEN Attr(file.src, k)
                                 ELSE Attr(NewSnapshot, k)
      /\ file.keys # {} => fresh.snap.N = file.src.N )

(***************************************************************************)
(* The rank transform (color.rankOrderTransform)                           *)
(***************************************************************************)
\* rows of the matrix handed to the transform (the bound of the rank
\* specification)
NumRows == 4

\* np.nan among the values of R
NaN == -1
ColumnValues == 0..(NumRows - 1)

\* the matrices R: NumRows rows and two columns; the first column holds any
\* value or NaN, the last one 0, 1 or NaN
Matrices == [1..NumRows -> (ColumnValues \cup {NaN}) \X {NaN, 0, 1}]

\* an entry of coords: NaN or the fraction num/den
NaNCell == [nan |-> TRUE, num |-> 0, den |-> 1]
Frac(n, d) == [nan |-> FALSE, num |-> n, den |-> d]

\* np.unique(r[r==r]) : the distinct values of column c that are not NaN,
\* ascending
UniqueSorted(M, c) == SortedSeq({M[i][c] : i \in 1..Len(M)} \ {NaN})

\* np.linspace(0., 1., m) : m evenly spaced fractions, [0.] for m = 1
Linspace(m) == [j \in 1..m |-> IF m = 1 THEN Frac(0, 1) ELSE Frac(j - 1, m - 1)]

\* np.interp(v, s, x) for one value: NaN stays NaN, a value at or beyond the
\* ends of s takes the end value of x, a sample point s[j] takes x[j].
\* Every value that is not NaN is a sample point here.
Interp(v, s, x) ==
    IF v = NaN THEN NaNCell
    ELSE IF v <= s[1] THEN x[1]
    ELSE x[CHOOSE j \in 1..Len(s) : s[j] <= v /\ (j = Len(s) \/ v < s[j + 1])]

\* the loop of lines 62-66 from column c on; np.interp raises a ValueError
\* when the array of sample points is empty
RECURSIVE TransformColumns(_, _, _)
TransformColumns(M, out, c) ==
    IF c > Len(M[1]) THEN [err |-> "none", val |-> out]
    ELSE LET sv == UniqueSorted(M, c)
             x  == Linspace(Len(sv))
         IN  IF Len(sv) = 0 THEN [err |-> "ValueError", val |-> <<>>]
             ELSE TransformColumns(M,
                      [i \in 1..Len(M) |-> [out[i] EXCEPT ![c] = Interp(M[i][c], sv, x)]],
                      c + 1)

\* rankOrderTransform(R) (lines 58-69): rows that are NaN in the last column
\* of coords become rows of 1
RankOrderTransform(M) ==
    LET t == TransformColumns(M, [i \in 1..Len(M) |-> [c \in 1..Len(M[1]) |-> NaNCell]], 1)
    IN  IF t.err # "none" THEN [done |-> TRUE, err |-> t.err, val |-> <<>>]
        ELSE [done |-> TRUE, err |-> "none",
              val  |-> [i \in 1..Len(M) |->
                          IF t.val[i][Len(M[1])].nan
                          THEN [c \in 1..Len(M[1]) |-> Frac(1, 1)]
                          ELSE t.val[i]]]

InitRank ==
    /\ libs = [l \in LibIds |-> EmptyLibrary]
    /\ last = NoCall
    /\ calls = 0
    /\ merged = NotMerged
    /\ EnsIdle
    /\ DistIdle
    /\ SnapIdle
    /\ R \in Matrices
    /\ coords = NotTransformed

\* coords = rankOrderTransform(R)
Transform ==
    /\ ~coords.done
    /\ coords' = RankOrderTransform(R)
    /\ UNCHANGED <<R, snapVars, libVars, ensVars, distVars>>

NextRank == Transform

SpecRank == InitRank /\ [][NextRank]_vars

\* the distinct values of column c that are not NaN, and the number of them
\* that are smaller than v
Distinct(c) == {R[i][c] : i \in 1..Len(R)} \ {NaN}
RankOf(v, c) == Cardinality({u \in Distinct(c) : u < v})

\* C12: the transform ends without error; in every row that is not a
\* sentinel row (its last value is not NaN), a value that is the r-th
\* smallest of the m >= 2 distinct values of its column that are not NaN is
\* mapped to r/(m-1); a column that is entirely NaN becomes rows of 1.0.
C12_RankTransform ==
    coords.done =>
        /\ coords.err = "none"
        /\ \A c \in 1..2 :
             IF Distinct(c) = {}
             THEN \A i \in 1..Len(R) : coords.val[i][c] = Frac(1, 1)
             ELSE \A i \in 1..Len(R) :
                    (R[i][c] # NaN /\ R[i][2] # NaN /\ Cardinality(Distinct(c)) >= 2) =>
                        /\ ~coords.val[i][c].nan
                        /\ coords.val[i][c].num * (Cardinality(Distinct(c)) - 1)
                             = RankOf(R[i][c], c) * coords.val[i][c].den

====
